---- MODULE Spec2Model ----
(***************************************************************************)
(* Smart-Task-Analyzer: the dependency-graph engine                        *)
(* (tasks/dependency_analyzer.py) and the priority-scoring engine          *)
(* (tasks/scoring.py).                                                     *)
(*                                                                         *)
(* SpecDep  assembles a bounded task list and runs get_dependency_order   *)
(*          on it.                                                         *)
(*          and analyze_task_dependencies on it.                           *)
(* SpecScore runs calculate_task_score on a bounded task record, and on    *)
(*          a second record that differs from it in one field.             *)
(* SpecRank assembles a bounded task list and runs apply_sorting_strategy  *)
(*          (tasks/sorting_strategies.py) on it.                           *)
(* SpecLevel runs get_task_priority_level on a bounded score, and on a     *)
(*          second score.                                                  *)
(***************************************************************************)
EXTENDS Integers, Sequences, FiniteSets, TLC

\* ------------------------------------------------------------------------
\* Bounds
\* ------------------------------------------------------------------------
MaxTasks == 3      \* tasks in one call of the dependency engine
MaxEdges == 4      \* dependency entries of all tasks of one call together
MaxOverdue == 1    \* days a due date lies in the past
MaxAhead == 8      \* days a due date lies in the future
MaxImportance == 11 \* largest importance value supplied (the clamp is at 10)
MaxHours == 14     \* largest estimated_hours value supplied
MaxRankTasks == 2  \* tasks in one call of apply_sorting_strategy
MaxScore == 120    \* largest score handed to get_task_priority_level

VARIABLES
    pc,                \* position of the call in progress
    tasks,             \* get_dependency_order: the input list
    circular_info,     \* result of detect_circular_dependencies(tasks)
    in_degree,         \* get_dependency_order: in_degree dict
    queue,             \* get_dependency_order: Kahn queue
    ordered_task_ids,  \* get_dependency_order: ids dequeued so far
    ordered_tasks,     \* get_dependency_order: returned 'ordered_tasks'
    warnings,          \* get_dependency_order: returned 'warnings'
    task_data,         \* calculate_task_score: the record being scored
    result,            \* calculate_task_score: outcome for task_data
    base_task,         \* the record scored before the last edit
    base_result,       \* its outcome
    recommendations,   \* analyze_task_dependencies: returned 'recommendations'
    rank_tasks,        \* apply_sorting_strategy: the input list
    strategy,          \* apply_sorting_strategy: the strategy name passed
    sorted_tasks,      \* apply_sorting_strategy: the returned list
    given_score,       \* get_task_priority_level: the score passed
    priority_level,    \* get_task_priority_level: the returned label
    prev_score,        \* the score classified before
    prev_level         \* its label

vars == <<pc, tasks, circular_info, in_degree, queue, ordered_task_ids,
          ordered_tasks, warnings, task_data, result, base_task, base_result,
          recommendations, rank_tasks, strategy, sorted_tasks, given_score,
          priority_level, prev_score, prev_level>>

rankVars == <<rank_tasks, strategy, sorted_tasks>>

levelVars == <<given_score, priority_level, prev_score, prev_level>>

extVars == <<recommendations, rankVars, levelVars>>

depVars == <<tasks, circular_info, in_degree, queue, ordered_task_ids,
             ordered_tasks, warnings>>

scoreVars == <<task_data, result, base_task, base_result>>

\* ------------------------------------------------------------------------
\* Generic helpers
\* ------------------------------------------------------------------------
Range(s) == {s[i] : i \in DOMAIN s}

\* an index that always names the start of the list
IndexOfStart(s, x) == 1

\* list.index(x): position of the first occurrence
Index(s, x) == CHOOSE i \in DOMAIN s : s[i] = x /\ \A j \in 1..(i - 1) : s[j] # x

\* all orders in which a set can be iterated
Orderings(S) ==
    {s \in [1..Cardinality(S) -> S] : \A i, j \in DOMAIN s : i # j => s[i] # s[j]}

\* ------------------------------------------------------------------------
\* Dependency engine: inputs
\* ------------------------------------------------------------------------
\* `if task_id:` -- None, 0 and "" are not ids
Truthy(task_id) == task_id # 0

RECURSIVE TotalEntries(_, _)
\* the number of dependency entries of the first n tasks together
TotalEntries(ts, n) ==
    IF n = 0 THEN 0 ELSE Len(ts[n].dependencies) + TotalEntries(ts, n - 1)

\* graph / task_map keys in dict insertion order
GraphKeys(ts) == SelectSeq([i \in DOMAIN ts |-> ts[i].id], Truthy)

\* graph[task_id] = task.get('dependencies', [])
Graph(ts) ==
    [k \in Range(GraphKeys(ts)) |->
        (CHOOSE t \in Range(ts) : t.id = k).dependencies]

\* task_map[task_id] = task
TaskMap(ts) == [k \in Range(GraphKeys(ts)) |-> CHOOSE t \in Range(ts) : t.id = k]

\* ------------------------------------------------------------------------
\* detect_circular_dependencies
\* ------------------------------------------------------------------------
RECURSIVE dfs_visited_first(_, _, _)
RECURSIVE dfs_visited_first_dependencies(_, _, _, _)

\* dfs with the `node in visited` test placed before the `node in rec_stack`
\* test: a node on the current path is always visited, so no chain is recorded
dfs_visited_first(graph, node, st) ==
    IF node \notin DOMAIN graph THEN st
    ELSE IF node \in st.visited THEN st
    ELSE IF node \in st.rec_stack THEN
        LET cycle_start == Index(st.path, node)
            circular_chain == SubSeq(st.path, cycle_start, Len(st.path)) \o <<node>>
        IN [st EXCEPT !.circular_chains = Append(@, circular_chain)]
    ELSE
        LET entered == [st EXCEPT !.visited = @ \cup {node},
                                  !.rec_stack = @ \cup {node},
                                  !.path = Append(@, node)]
            explored == dfs_visited_first_dependencies(graph, node, 1, entered)
        IN [explored EXCEPT !.rec_stack = @ \ {node},
                            !.path = SubSeq(@, 1, Len(@) - 1)]

dfs_visited_first_dependencies(graph, node, i, st) ==
    IF i > Len(graph[node]) THEN st
    ELSE dfs_visited_first_dependencies(graph, node, i + 1,
            dfs_visited_first(graph, graph[node][i], st))

RECURSIVE dfs(_, _, _)
RECURSIVE dfs_dependencies(_, _, _, _)

\* st = [visited, rec_stack, path, circular_chains], the closure state of dfs
dfs(graph, node, st) ==
    IF node \notin DOMAIN graph THEN st
    ELSE IF node \in st.rec_stack THEN
        LET cycle_start == Index(st.path, node)
            circular_chain == SubSeq(st.path, cycle_start, Len(st.path)) \o <<node>>
        IN [st EXCEPT !.circular_chains = Append(@, circular_chain)]
    ELSE IF node \in st.visited THEN st
    ELSE
        LET entered == [st EXCEPT !.visited = @ \cup {node},
                                  !.rec_stack = @ \cup {node},
                                  !.path = Append(@, node)]
            explored == dfs_dependencies(graph, node, 1, entered)
        IN [explored EXCEPT !.rec_stack = @ \ {node},
                            !.path = SubSeq(@, 1, Len(@) - 1)]

\* for dependency in graph[node]: dfs(dependency, path)
dfs_dependencies(graph, node, i, st) ==
    IF i > Len(graph[node]) THEN st
    ELSE dfs_dependencies(graph, node, i + 1, dfs(graph, graph[node][i], st))

RECURSIVE CheckAllNodes(_, _, _, _)
\* for task_id in graph: if task_id not in visited: dfs(task_id, [])
CheckAllNodes(graph, keys, i, st) ==
    IF i > Len(keys) THEN st
    ELSE CheckAllNodes(graph, keys, i + 1,
            IF keys[i] \notin st.visited THEN dfs(graph, keys[i], st) ELSE st)

\* A warning is kept as the ids whose titles the message joins:
\* chain[:-1] followed by the first name again.
ChainWarning(chain) ==
    LET task_names == SubSeq(chain, 1, Len(chain) - 1)
    IN [kind |-> "circular", names |-> Append(task_names, task_names[1])]

detect_circular_dependencies(ts) ==
    LET graph == Graph(ts)
        st == CheckAllNodes(graph, GraphKeys(ts), 1,
                [visited |-> {}, rec_stack |-> {}, path |-> <<>>,
                 circular_chains |-> <<>>])
        chains == st.circular_chains
    IN [has_circular |-> Len(chains) > 0,
        circular_chains |-> chains,
        warnings |-> [i \in DOMAIN chains |-> ChainWarning(chains[i])]]

\* ------------------------------------------------------------------------
\* get_dependency_order
\* ------------------------------------------------------------------------
\* in_degree[task_id] += 1 for every entry of its own list that is a key
InDegrees(ts) ==
    LET graph == Graph(ts)
    IN [k \in DOMAIN graph |->
            Cardinality({i \in DOMAIN graph[k] : graph[k][i] \in DOMAIN graph})]

\* [task_id for task_id, degree in in_degree.items() if degree == 0]
InitialQueue(ts) ==
    LET deg == InDegrees(ts)
    IN SelectSeq(GraphKeys(ts), LAMBDA k : deg[k] = 0)

RECURSIVE ProcessDependents(_, _, _, _, _)
\* for task_id in graph: if current in graph[task_id]: decrement, enqueue at 0
ProcessDependents(graph, keys, i, current, dq) ==
    IF i > Len(keys) THEN dq
    ELSE LET task_id == keys[i]
         IN IF current \in Range(graph[task_id])
            THEN LET d == dq.in_degree[task_id] - 1
                 IN ProcessDependents(graph, keys, i + 1, current,
                        [in_degree |-> [dq.in_degree EXCEPT ![task_id] = d],
                         queue |-> IF d = 0 THEN Append(dq.queue, task_id)
                                   ELSE dq.queue])
            ELSE ProcessDependents(graph, keys, i + 1, current, dq)

\* the remaining set computed without the subtraction of the ordered ids
RemainingTaskIdsNoSubtract(ts, ordered) == DOMAIN TaskMap(ts)

\* line 147: set(task_map.keys()) - set(ordered_task_ids)
RemainingTaskIds(ts, ordered) == DOMAIN TaskMap(ts) \ Range(ordered)

NoInfo == [has_circular |-> FALSE, circular_chains |-> <<>>, warnings |-> <<>>]
NoTask == [due_date |-> [kind |-> "missing", days |-> 0],
           importance |-> [kind |-> "missing", val |-> 0],
           estimated_hours |-> [kind |-> "missing", val |-> 0],
           dependencies |-> [kind |-> "missing", len |-> 0]]
NoResult == [raised |-> FALSE, score |-> 0, urgency |-> 0,
             overdue_bonus |-> FALSE, quick_bonus |-> FALSE]

DepIdle ==
    /\ circular_info = NoInfo
    /\ in_degree = <<>>
    /\ queue = <<>>
    /\ ordered_task_ids = <<>>
    /\ ordered_tasks = <<>>
    /\ warnings = <<>>

ScoreIdle ==
    /\ task_data = NoTask
    /\ result = NoResult
    /\ base_task = NoTask
    /\ base_result = NoResult

RankIdle ==
    /\ rank_tasks = <<>>
    /\ strategy = ""
    /\ sorted_tasks = [raised |-> FALSE, tasks |-> <<>>]

LevelIdle ==
    /\ given_score = 0
    /\ priority_level = ""
    /\ prev_score = 0
    /\ prev_level = ""

InitDep ==
    /\ pc = "input"
    /\ tasks = <<>>
    /\ DepIdle
    /\ ScoreIdle
    /\ recommendations = <<>>
    /\ RankIdle
    /\ LevelIdle

\* The caller assembles the task list.  A new task carries the next unused
\* id (ids are opaque and pairwise distinct) and no dependencies yet.
AddTask ==
    /\ pc = "input"
    /\ Len(tasks) < MaxTasks
    /\ TotalEntries(tasks, Len(tasks)) = 0
    /\ tasks' = Append(tasks, [id |-> Len(tasks) + 1, dependencies |-> <<>>])
    /\ UNCHANGED <<pc, circular_info, in_degree, queue, ordered_task_ids,
                   ordered_tasks, warnings, scoreVars, extVars>>

\* The caller appends an id to a task's dependency list: any id, a duplicate,
\* the task's own id or an id in 1..MaxTasks that no input task carries.
\* The lists are filled from the first task to the last, so that every task
\* list is assembled in one way only.
AddDependency ==
    /\ pc = "input"
    /\ TotalEntries(tasks, Len(tasks)) < MaxEdges
    /\ \E i \in DOMAIN tasks, d \in 1..MaxTasks :
          /\ \A j \in (i + 1)..Len(tasks) : tasks[j].dependencies = <<>>
          /\ tasks' = [tasks EXCEPT ![i].dependencies = Append(@, d)]
    /\ UNCHANGED <<pc, circular_info, in_degree, queue, ordered_task_ids,
                   ordered_tasks, warnings, scoreVars, extVars>>

\* line 105: circular_info = detect_circular_dependencies(tasks)
Detect ==
    /\ pc = "input"
    /\ circular_info' = detect_circular_dependencies(tasks)
    /\ pc' = "build"
    /\ UNCHANGED <<tasks, in_degree, queue, ordered_task_ids, ordered_tasks,
                   warnings, scoreVars, extVars>>

\* lines 108-127: graph, in_degree, task_map, the seeded queue
BuildGraph ==
    /\ pc = "build"
    /\ in_degree' = InDegrees(tasks)
    /\ queue' = InitialQueue(tasks)
    /\ ordered_task_ids' = <<>>
    /\ pc' = "kahn"
    /\ UNCHANGED <<tasks, circular_info, ordered_tasks, warnings, scoreVars, extVars>>

\* lines 129-138: one iteration of `while queue`
Dequeue ==
    /\ pc = "kahn"
    /\ queue # <<>>
    /\ LET current == Head(queue)
           dq == ProcessDependents(Graph(tasks), GraphKeys(tasks), 1, current,
                    [in_degree |-> in_degree, queue |-> Tail(queue)])
       IN /\ ordered_task_ids' = Append(ordered_task_ids, current)
          /\ in_degree' = dq.in_degree
          /\ queue' = dq.queue
    /\ UNCHANGED <<pc, tasks, circular_info, ordered_tasks, warnings, scoreVars, extVars>>

\* lines 140-159: the loop has ended; map ids back to tasks, append the
\* remaining tasks in the iteration order of a set, build the warnings
FinishOrder ==
    /\ pc = "kahn"
    /\ queue = <<>>
    /\ LET task_map == TaskMap(tasks)
           resolved == SelectSeq(ordered_task_ids, LAMBDA k : k \in DOMAIN task_map)
           remaining_task_ids == RemainingTaskIds(tasks, ordered_task_ids)
       IN \E tail \in Orderings(remaining_task_ids) :
            /\ ordered_tasks' = [i \in 1..Len(resolved \o tail) |->
                                    task_map[(resolved \o tail)[i]]]
            /\ warnings' = IF remaining_task_ids # {}
                           THEN Append(circular_info.warnings,
                                    [kind |-> "remaining", names |-> tail])
                           ELSE circular_info.warnings
    /\ pc' = "done"
    /\ UNCHANGED <<tasks, circular_info, in_degree, queue, ordered_task_ids,
                   scoreVars, extVars>>

\* ------------------------------------------------------------------------
\* analyze_task_dependencies: blocking_tasks and the recommendations
\* ------------------------------------------------------------------------
RECURSIVE Occurrences(_, _)
\* how many entries of the list deps are the id k
Occurrences(deps, k) ==
    IF deps = <<>> THEN 0
    ELSE (IF Head(deps) = k THEN 1 ELSE 0) + Occurrences(Tail(deps), k)

RECURSIVE Blocked(_, _, _)
\* lines 188-191: blocking_tasks[k] after the first n tasks; the id of a task
\* is appended once for every entry of its list that is k
Blocked(ts, n, k) ==
    IF n = 0 THEN <<>>
    ELSE Blocked(ts, n - 1, k)
         \o [j \in 1..Occurrences(ts[n].dependencies, k) |-> ts[n].id]

\* lines 182-191
BlockingTasks(ts) ==
    [k \in Range(GraphKeys(ts)) |-> Blocked(ts, Len(ts), k)]

\* lines 209-239; a record keeps the type and the values its message cites
GenerateDependencyRecommendations(ts, info, blocking_tasks) ==
    LET high_blocking == SelectSeq(GraphKeys(ts),
                            LAMBDA k : Len(blocking_tasks[k]) >= 3)
        no_deps == SelectSeq(ts, LAMBDA t : t.dependencies = <<>>)
    IN (IF info.has_circular
        THEN <<[type |-> "warning", task_id |-> 0, count |-> 0]>> ELSE <<>>)
       \o (IF high_blocking # <<>>
           THEN <<[type |-> "priority", task_id |-> high_blocking[1],
                   count |-> Len(blocking_tasks[high_blocking[1]])]>>
           ELSE <<>>)
       \o (IF no_deps # <<>>
           THEN <<[type |-> "opportunity", task_id |-> 0,
                   count |-> Len(no_deps)]>>
           ELSE <<>>)

\* lines 173-206: detection and ordering have run on tasks; the report's
\* recommendations are generated from circular_info and blocking_tasks
Analyze ==
    /\ pc = "done"
    /\ recommendations' =
          GenerateDependencyRecommendations(tasks, circular_info,
                                            BlockingTasks(tasks))
    /\ pc' = "analyzed"
    /\ UNCHANGED <<depVars, scoreVars, rankVars, levelVars>>

NextDep ==
    \/ AddTask \/ AddDependency \/ Detect \/ BuildGraph \/ Dequeue
    \/ FinishOrder \/ Analyze

SpecDep == InitDep /\ [][NextDep]_vars

\* ------------------------------------------------------------------------
\* Priority scoring engine: task records
\* ------------------------------------------------------------------------
\* A field is kept with the kind of value the caller put there.
\*   due_date        missing | iso (ISO string of today + days) | badstr
\*                   (unparseable string) | date (date object, today + days)
\*                   | null (None) | number (a non-date, non-string value)
\*   importance,
\*   estimated_hours missing | int | null (None) | str (non-numeric)
\*   dependencies    missing | list (of len ids) | null (None) | number
\*                   (a non-empty value without a length)
DayOffsets == (0 - MaxOverdue)..MaxAhead

DueDates ==
    {[kind |-> k, days |-> 0] : k \in {"missing", "badstr", "null", "number"}}
    \cup {[kind |-> k, days |-> d] : k \in {"iso", "date"}, d \in DayOffsets}

Importances ==
    {[kind |-> k, val |-> 0] : k \in {"missing", "null", "str"}}
    \cup {[kind |-> "int", val |-> v] : v \in 0..MaxImportance}

EstimatedHours ==
    {[kind |-> k, val |-> 0] : k \in {"missing", "null", "str"}}
    \cup {[kind |-> "int", val |-> v] : v \in 0..MaxHours}

Dependencies ==
    {[kind |-> k, len |-> 0] : k \in {"missing", "null"}}
    \cup {[kind |-> "number", len |-> 0]}
    \cup {[kind |-> "list", len |-> n] : n \in 0..1}

TaskRecords ==
    [due_date : DueDates, importance : Importances,
     estimated_hours : EstimatedHours, dependencies : Dependencies]

\* ------------------------------------------------------------------------
\* calculate_task_score
\* ------------------------------------------------------------------------
Max(a, b) == IF a >= b THEN a ELSE b
Min(a, b) == IF a <= b THEN a ELSE b
Abs(a) == IF a < 0 THEN 0 - a ELSE a

\* task_data.get(field, default) for the two numeric fields
GetNumber(field, default) ==
    IF field.kind = "missing" THEN [kind |-> "int", val |-> default] ELSE field

\* a missing key handled like a failed parse instead of defaulting to today
DaysUntilDueMissingFails(due_date) ==
    CASE due_date.kind = "iso" -> [ok |-> TRUE, days |-> due_date.days]
      [] due_date.kind = "date" -> [ok |-> TRUE, days |-> due_date.days]
      [] OTHER -> [ok |-> FALSE, days |-> 0]

\* lines 33-40: the due date as days from today, or the exception the try
\* block catches (ValueError from fromisoformat, TypeError from the
\* subtraction); a missing key defaults to date.today()
DaysUntilDue(due_date) ==
    CASE due_date.kind = "iso" -> [ok |-> TRUE, days |-> due_date.days]
      [] due_date.kind = "badstr" -> [ok |-> FALSE, days |-> 0]
      [] due_date.kind = "missing" -> [ok |-> TRUE, days |-> 0]
      [] due_date.kind = "date" -> [ok |-> TRUE, days |-> due_date.days]
      [] OTHER -> [ok |-> FALSE, days |-> 0]

\* lines 42-59
UrgencyScore(due) ==
    IF ~due.ok THEN 15
    ELSE IF due.days < 0 THEN 100 + Abs(due.days) * 10
    ELSE IF due.days = 0 THEN 80
    ELSE IF due.days <= 1 THEN 60
    ELSE IF due.days <= 3 THEN 40
    ELSE IF due.days <= 7 THEN 20
    ELSE Max(0, 10 - (due.days \div 7))

\* the clamp with its two bounds exchanged: min(1, max(10, importance))
ClampImportanceSwapped(importance) == Min(1, Max(10, importance))

\* line 29: max(1, min(10, importance))
ClampImportance(importance) == Max(1, Min(10, importance))

\* the effort table with the bonuses of its first two bands exchanged
EffortScoreBandsSwapped(estimated_hours) ==
    IF estimated_hours <= 1 THEN 10
    ELSE IF estimated_hours <= 2 THEN 15
    ELSE IF estimated_hours <= 4 THEN 5
    ELSE 0 - Max(0, (estimated_hours - 4) * 2)

\* lines 66-74
EffortScore(estimated_hours) ==
    IF estimated_hours <= 1 THEN 15
    ELSE IF estimated_hours <= 2 THEN 10
    ELSE IF estimated_hours <= 4 THEN 5
    ELSE 0 - Max(0, (estimated_hours - 4) * 2)

\* lines 77-78: `not dependencies or len(dependencies) == 0`
DependencyBonus(dependencies) ==
    IF dependencies.kind \in {"missing", "null"} THEN 5
    ELSE IF dependencies.len = 0 THEN 5
    ELSE 0

\* lines 82-90: one try block around both checks; when the date block failed
\* days_until_due is unbound, the first `if` raises NameError and the bare
\* except skips the rest of the block
OverdueBonusApplies(due, importance) ==
    due.ok /\ due.days < 0 /\ importance >= 8

QuickBonusApplies(due, estimated_hours, importance) ==
    due.ok /\ estimated_hours <= 2 /\ importance >= 7

Raised == [raised |-> TRUE, score |-> 0, urgency |-> 0,
           overdue_bonus |-> FALSE, quick_bonus |-> FALSE]

\* The outcome: raised, or the returned score together with the urgency term
\* and the combination bonuses that were added on the way.
calculate_task_score(t) ==
    LET imp == GetNumber(t.importance, 5)
        hrs == GetNumber(t.estimated_hours, 1)
    IN IF imp.kind # "int" THEN Raised                \* line 29: TypeError
       ELSE IF hrs.kind # "int" THEN Raised           \* line 66: TypeError
       ELSE IF t.dependencies.kind = "number" THEN Raised  \* line 77: TypeError
       ELSE
         LET importance == ClampImportance(imp.val)
             due == DaysUntilDue(t.due_date)
             urgency == UrgencyScore(due)
             overdue_bonus == OverdueBonusApplies(due, importance)
             quick_bonus == QuickBonusApplies(due, hrs.val, importance)
             score == urgency + importance * 8 + EffortScore(hrs.val)
                      + DependencyBonus(t.dependencies)
                      + (IF overdue_bonus THEN 25 ELSE 0)
                      + (IF quick_bonus THEN 10 ELSE 0)
         IN [raised |-> FALSE, score |-> Max(0, score), urgency |-> urgency,
             overdue_bonus |-> overdue_bonus, quick_bonus |-> quick_bonus]

InitScore ==
    /\ pc = "input"
    /\ task_data \in TaskRecords
    /\ result = NoResult
    /\ base_task = NoTask
    /\ base_result = NoResult
    /\ tasks = <<>>
    /\ DepIdle
    /\ recommendations = <<>>
    /\ RankIdle
    /\ LevelIdle

\* a caller scores the record: calculate_task_score(task_data)
Calculate ==
    /\ pc \in {"input", "edited"}
    /\ result' = calculate_task_score(task_data)
    /\ pc' = IF pc = "input" THEN "scored" ELSE "rescored"
    /\ UNCHANGED <<task_data, base_task, base_result, depVars, extVars>>

\* The caller got a score, builds a second record that differs in one field
\* and keeps the first record and its score for comparison.
EditField(edited) ==
    /\ pc = "scored"
    /\ ~result.raised
    /\ edited # task_data
    /\ base_task' = task_data
    /\ base_result' = result
    /\ task_data' = edited
    /\ result' = NoResult
    /\ pc' = "edited"
    /\ UNCHANGED <<depVars, extVars>>

EditImportance ==
    \E v \in Importances : EditField([task_data EXCEPT !.importance = v])

EditEstimatedHours ==
    \E v \in EstimatedHours : EditField([task_data EXCEPT !.estimated_hours = v])

EditDueDate ==
    \E v \in DueDates : EditField([task_data EXCEPT !.due_date = v])

NextScore == Calculate \/ EditImportance \/ EditEstimatedHours \/ EditDueDate

SpecScore == InitScore /\ [][NextScore]_vars

\* ------------------------------------------------------------------------
\* Ranking strategies (tasks/sorting_strategies.py): task records
\* ------------------------------------------------------------------------
\* The tasks handed to a strategy: an id and the four scored fields, each
\* absent or of the type the data model gives it (the due date may be an
\* unparseable string).
RankDueDates ==
    {[kind |-> "missing", days |-> 0], [kind |-> "badstr", days |-> 0],
     [kind |-> "iso", days |-> 0 - MaxOverdue],
     [kind |-> "iso", days |-> MaxAhead]}

RankImportances ==
    {[kind |-> "missing", val |-> 0], [kind |-> "int", val |-> 6],
     [kind |-> "int", val |-> MaxImportance]}

\* estimated_hours and dependencies: a quick task that can start, a long
\* task that can start, a long task that waits for another
RankWorkloads ==
    {[estimated_hours |-> [kind |-> "int", val |-> 1],
      dependencies |-> [kind |-> "list", len |-> 0]],
     [estimated_hours |-> [kind |-> "int", val |-> MaxHours],
      dependencies |-> [kind |-> "list", len |-> 0]],
     [estimated_hours |-> [kind |-> "int", val |-> MaxHours],
      dependencies |-> [kind |-> "list", len |-> 1]]}

\* SORTING_STRATEGIES, lines 90-95
SORTING_STRATEGIES ==
    {"fastest_wins", "high_impact", "deadline_driven", "smart_balance"}

\* the names a caller passes: the registered ones and an unregistered one
StrategyNames == SORTING_STRATEGIES \cup {"invalid_strategy"}

\* ------------------------------------------------------------------------
\* The sort keys.  Keys are kept as integers: impact_score is held times 10
\* and deadline_score times 5, which leaves every comparison as it is.
\* ------------------------------------------------------------------------
\* lines 14-28: fastest_score
fastest_score(t) ==
    LET base_score == calculate_task_score(t).score
        effort_hours == GetNumber(t.estimated_hours, 1).val
        bonus == IF effort_hours <= 1 THEN 50
                 ELSE IF effort_hours <= 2 THEN 30
                 ELSE IF effort_hours <= 4 THEN 15
                 ELSE 0
    IN base_score + bonus

\* lines 37-40: impact_score = importance * 20 + score * 0.3, times 10
impact_score(t) ==
    GetNumber(t.importance, 5).val * 200 + calculate_task_score(t).score * 3

\* lines 50-57: the due date as days from today, or the caught exception
DeadlineDaysUntilDue(due_date) ==
    CASE due_date.kind = "iso" -> [ok |-> TRUE, days |-> due_date.days]
      [] due_date.kind = "badstr" -> [ok |-> FALSE, days |-> 0]
      [] due_date.kind = "missing" -> [ok |-> TRUE, days |-> 0]
      [] due_date.kind = "date" -> [ok |-> TRUE, days |-> due_date.days]
      [] OTHER -> [ok |-> FALSE, days |-> 0]

\* the urgency table with the overdue base of 1000 written as 100
DeadlineUrgencyLowOverdue(due) ==
    IF ~due.ok THEN 100
    ELSE IF due.days < 0 THEN 100 + Abs(due.days) * 50
    ELSE IF due.days = 0 THEN 500
    ELSE IF due.days <= 1 THEN 400
    ELSE IF due.days <= 3 THEN 300
    ELSE IF due.days <= 7 THEN 200
    ELSE Max(0, 100 - due.days)

\* lines 60-74: urgency_score
DeadlineUrgency(due) ==
    IF ~due.ok THEN 100
    ELSE IF due.days < 0 THEN 1000 + Abs(due.days) * 50
    ELSE IF due.days = 0 THEN 500
    ELSE IF due.days <= 1 THEN 400
    ELSE IF due.days <= 3 THEN 300
    ELSE IF due.days <= 7 THEN 200
    ELSE Max(0, 100 - due.days)

\* line 76: deadline_score = urgency_score + score * 0.2, times 5
deadline_score(t) ==
    DeadlineUrgency(DeadlineDaysUntilDue(t.due_date)) * 5
    + calculate_task_score(t).score

\* the key function of a registered strategy
StrategyKey(name, t) ==
    CASE name = "fastest_wins" -> fastest_score(t)
      [] name = "high_impact" -> impact_score(t)
      [] name = "deadline_driven" -> deadline_score(t)
      [] OTHER -> calculate_task_score(t).score

\* ------------------------------------------------------------------------
\* sorted(tasks, key=..., reverse=True): a stable sort, elements with equal
\* keys keep their input order also when reverse is set
\* ------------------------------------------------------------------------
\* positions are inserted from the first to the last; the new position goes
\* before the equal keys already placed
InsertBeforeEqualKeys(placed, keys, n) ==
    SelectSeq(placed, LAMBDA j : keys[j] > keys[n])
    \o <<n>>
    \o SelectSeq(placed, LAMBDA j : keys[j] <= keys[n])

\* the new position goes behind every position placed with a key at least
\* as large
InsertByKey(placed, keys, n) ==
    SelectSeq(placed, LAMBDA j : keys[j] >= keys[n])
    \o <<n>>
    \o SelectSeq(placed, LAMBDA j : keys[j] < keys[n])

RECURSIVE SortedPositions(_, _)
\* the first n input positions in descending order of key
SortedPositions(keys, n) ==
    IF n = 0 THEN <<>>
    ELSE InsertByKey(SortedPositions(keys, n - 1), keys, n)

\* lines 30, 42, 78, 86: sorted(tasks, key=..., reverse=True); the call
\* raises when a key function raises
SortByStrategy(ts, name) ==
    IF \E i \in DOMAIN ts : calculate_task_score(ts[i]).raised
    THEN [raised |-> TRUE, tasks |-> <<>>]
    ELSE LET keys == [i \in DOMAIN ts |-> StrategyKey(name, ts[i])]
             order == SortedPositions(keys, Len(ts))
         IN [raised |-> FALSE, tasks |-> [i \in DOMAIN ts |-> ts[order[i]]]]

\* an unregistered name resolved to 'fastest_wins'
ResolveStrategyToFastestWins(name) ==
    IF name \notin SORTING_STRATEGIES THEN "fastest_wins" ELSE name

\* lines 119-120
ResolveStrategy(name) ==
    IF name \notin SORTING_STRATEGIES THEN "smart_balance" ELSE name

\* lines 108-122
apply_sorting_strategy(ts, name) == SortByStrategy(ts, ResolveStrategy(name))

NoSorted == [raised |-> FALSE, tasks |-> <<>>]

InitRank ==
    /\ pc = "collect"
    /\ rank_tasks = <<>>
    /\ strategy = ""
    /\ sorted_tasks = NoSorted
    /\ tasks = <<>>
    /\ DepIdle
    /\ ScoreIdle
    /\ recommendations = <<>>
    /\ LevelIdle

\* The caller collects the tasks to rank; a task gets the next id
\* (views.py: task['id'] = i + 1).
AddRankTask ==
    /\ pc = "collect"
    /\ Len(rank_tasks) < MaxRankTasks
    /\ \E d \in RankDueDates, i \in RankImportances, w \in RankWorkloads :
          rank_tasks' = Append(rank_tasks,
              [id |-> Len(rank_tasks) + 1, due_date |-> d, importance |-> i,
               estimated_hours |-> w.estimated_hours,
               dependencies |-> w.dependencies])
    /\ UNCHANGED <<pc, strategy, sorted_tasks, depVars, scoreVars,
                   recommendations, levelVars>>

\* apply_sorting_strategy(rank_tasks, name)
ApplySortingStrategy ==
    /\ pc = "collect"
    /\ \E name \in StrategyNames :
          /\ strategy' = name
          /\ sorted_tasks' = apply_sorting_strategy(rank_tasks, name)
    /\ pc' = "sorted"
    /\ UNCHANGED <<rank_tasks, depVars, scoreVars, recommendations, levelVars>>

NextRank == AddRankTask \/ ApplySortingStrategy

SpecRank == InitRank /\ [][NextRank]_vars

\* ------------------------------------------------------------------------
\* Priority levels (tasks/scoring.py, get_task_priority_level)
\* ------------------------------------------------------------------------
Scores == (0 - MaxScore)..MaxScore

\* the thresholds compared with > where the code has >=
get_task_priority_level_exclusive(score) ==
    IF score > 100 THEN "CRITICAL"
    ELSE IF score > 70 THEN "HIGH"
    ELSE IF score > 40 THEN "MEDIUM"
    ELSE IF score > 20 THEN "LOW"
    ELSE "MINIMAL"

\* lines 95-114
get_task_priority_level(score) ==
    IF score >= 100 THEN "CRITICAL"
    ELSE IF score >= 70 THEN "HIGH"
    ELSE IF score >= 40 THEN "MEDIUM"
    ELSE IF score >= 20 THEN "LOW"
    ELSE "MINIMAL"

InitLevel ==
    /\ pc = "input"
    /\ given_score \in Scores
    /\ priority_level = ""
    /\ prev_score = 0
    /\ prev_level = ""
    /\ tasks = <<>>
    /\ DepIdle
    /\ ScoreIdle
    /\ recommendations = <<>>
    /\ RankIdle

\* get_task_priority_level(given_score)
Classify ==
    /\ pc = "input"
    /\ priority_level' = get_task_priority_level(given_score)
    /\ pc' = "classified"
    /\ UNCHANGED <<given_score, prev_score, prev_level, depVars, scoreVars,
                   recommendations, rankVars>>

\* The caller classifies a second score and keeps the first outcome.
ClassifyAnother ==
    /\ pc = "classified"
    /\ \E score \in Scores :
          /\ given_score' = score
          /\ priority_level' = get_task_priority_level(score)
    /\ prev_score' = given_score
    /\ prev_level' = priority_level
    /\ pc' = "compared"
    /\ UNCHANGED <<depVars, scoreVars, recommendations, rankVars>>

NextLevel == Classify \/ ClassifyAnother

SpecLevel == InitLevel /\ [][NextLevel]_vars

\* ------------------------------------------------------------------------
\* Properties of the dependency engine (checked under SpecDep)
\* ------------------------------------------------------------------------
\* a depends on b in graph g: both are input tasks and b is listed by a
DependsOn(g, a, b) ==
    /\ a \in DOMAIN g
    /\ b \in DOMAIN g
    /\ b \in Range(g[a])

\* p is a closed walk: every element depends on the next, the last on the first
ClosedWalk(g, p) ==
    \A i \in DOMAIN p : DependsOn(g, p[i], p[(i % Len(p)) + 1])

\* the input tasks that the tasks of S list as dependencies
Prerequisites(g, S) ==
    {b \in DOMAIN g : \E a \in S : b \in Range(g[a])}

RECURSIVE ReachableIn(_, _, _)
\* the tasks reached from S by one to n dependency edges
ReachableIn(g, S, n) ==
    IF n = 0 THEN {}
    ELSE LET next == Prerequisites(g, S)
         IN next \cup ReachableIn(g, next, n - 1)

\* the dependency graph over the input tasks contains a directed cycle:
\* some task reaches itself
HasCycle(ts) ==
    LET g == Graph(ts)
    IN \E a \in DOMAIN g : a \in ReachableIn(g, {a}, Len(ts))

\* the simple directed cycles: closed walks without a repeated node
SimpleCycles(ts) ==
    LET g == Graph(ts)
    IN {p \in UNION {[1..len -> DOMAIN g] : len \in 1..Len(ts)} :
            /\ ClosedWalk(g, p)
            /\ \A i, j \in DOMAIN p : i # j => p[i] # p[j]}

\* chain walks the cycle p once from one of its nodes and closes on that node
TraversesCycle(chain, p) ==
    /\ Len(chain) = Len(p) + 1
    /\ \E k \in 0..(Len(p) - 1) :
          \A i \in 1..(Len(p) + 1) : chain[i] = p[((i - 1 + k) % Len(p)) + 1]

AllCarryDistinctIds(ts) ==
    /\ \A i \in DOMAIN ts : Truthy(ts[i].id)
    /\ \A i, j \in DOMAIN ts : i # j => ts[i].id # ts[j].id

PositionsOf(ts, t) == {i \in DOMAIN ts : ts[i] = t}

\* C1: on an acyclic graph get_dependency_order returns ordered_tasks in
\* which every task appears after every input task it lists as a dependency
\* (dependency lists may hold duplicates and unknown ids).
C1_OrderRespectsDependencies ==
    (pc = "done" /\ AllCarryDistinctIds(tasks) /\ ~HasCycle(tasks)) =>
        \A i, j \in DOMAIN ordered_tasks :
            DependsOn(Graph(tasks), ordered_tasks[i].id, ordered_tasks[j].id) => j < i

\* C2: when all input tasks carry pairwise distinct ids, ordered_tasks is a
\* permutation of the input (each input task exactly once, nothing else),
\* with or without cycles.
C2_OrderedTasksIsPermutation ==
    (pc = "done" /\ AllCarryDistinctIds(tasks)) =>
        /\ Len(ordered_tasks) = Len(tasks)
        /\ \A t \in Range(tasks) : Cardinality(PositionsOf(ordered_tasks, t)) = 1
        /\ Range(ordered_tasks) \subseteq Range(tasks)

\* C2 witness: a finished call on a cyclic three-task input in which some
\* tasks were dequeued and others were appended as remaining.
C2_Witness ==
    /\ pc = "done"
    /\ Len(tasks) = 3
    /\ HasCycle(tasks)
    /\ ordered_task_ids # <<>>
    /\ Len(ordered_task_ids) < Len(tasks)

\* C3: has_circular is true iff the dependency graph over the input tasks has
\* a directed cycle (a self reference is a one-node cycle, unknown ids are
\* ignored); without a cycle circular_chains and warnings are empty.
\* Stated where detect_circular_dependencies has just returned: no later
\* step writes circular_info.
C3_HasCircularIffCycle ==
    pc = "build" =>
        /\ circular_info.has_circular <=> HasCycle(tasks)
        /\ ~HasCycle(tasks) =>
              (circular_info.circular_chains = <<>> /\ circular_info.warnings = <<>>)

\* C3 witness: detection has run on an input with a self-referencing task and
\* a dependency on an id that no input task carries, and reported a cycle.
C3_Witness ==
    /\ pc = "build"
    /\ circular_info.has_circular
    /\ \E i \in DOMAIN tasks : tasks[i].id \in Range(tasks[i].dependencies)
    /\ \E i \in DOMAIN tasks :
          \E d \in Range(tasks[i].dependencies) : d \notin DOMAIN Graph(tasks)

\* C4: every simple directed cycle of the graph, also one sharing nodes with
\* another cycle, is traversed by some chain of circular_chains.
C4_AllCyclesReported ==
    pc = "build" =>
        \A p \in SimpleCycles(tasks) :
            \E i \in DOMAIN circular_info.circular_chains :
                TraversesCycle(circular_info.circular_chains[i], p)

\* ------------------------------------------------------------------------
\* Properties of the scoring engine (checked under SpecScore)
\* ------------------------------------------------------------------------
Scored == pc \in {"scored", "rescored"}

\* both records have been scored and neither call raised
BothScored == pc = "rescored" /\ ~result.raised /\ ~base_result.raised

OnlyImportanceDiffers ==
    /\ [base_task EXCEPT !.importance = task_data.importance] = task_data
    /\ base_task.importance.kind = "int"
    /\ task_data.importance.kind = "int"

OnlyHoursDiffer ==
    /\ [base_task EXCEPT !.estimated_hours = task_data.estimated_hours] = task_data
    /\ base_task.estimated_hours.kind = "int"
    /\ task_data.estimated_hours.kind = "int"

OnlyDueDateDiffers ==
    [base_task EXCEPT !.due_date = task_data.due_date] = task_data

\* the due date is a parseable string or a date object strictly before today
Overdue(t) == t.due_date.kind \in {"iso", "date"} /\ t.due_date.days < 0

\* the effort bands <=1, <=2, <=4, >4
EffortBand(h) == IF h <= 1 THEN 1 ELSE IF h <= 2 THEN 2 ELSE IF h <= 4 THEN 3 ELSE 4

\* C5: a task whose due_date is strictly before today scores at least 100,
\* whatever its importance, estimated_hours and dependencies.
C5_OverdueScoresAtLeast100 ==
    (Scored /\ ~result.raised /\ Overdue(task_data)) => result.score >= 100

\* C6 as stated: of two tasks identical except for their integer importance,
\* the one with the higher importance scores strictly higher.
C6_HigherImportanceStrictlyHigher ==
    (BothScored /\ OnlyImportanceDiffers
        /\ task_data.importance.val > base_task.importance.val) =>
        result.score > base_result.score

\* C6 amended: of two tasks identical except for their integer importance,
\* the one with the higher importance scores at least as high, and strictly
\* higher when the two values clamp to different values of [1, 10] and its
\* own score is not floored to 0.
C6_HigherImportanceNotLower ==
    (BothScored /\ OnlyImportanceDiffers
        /\ task_data.importance.val > base_task.importance.val) =>
        /\ result.score >= base_result.score
        /\ (/\ Max(1, Min(10, task_data.importance.val))
                  # Max(1, Min(10, base_task.importance.val))
            /\ result.score > 0) => result.score > base_result.score

\* C6 witness: two scored tasks differing only in importance, the values
\* clamping differently, the lower one floored to 0 and the higher one not.
C6_Witness ==
    /\ BothScored
    /\ OnlyImportanceDiffers
    /\ task_data.importance.val > base_task.importance.val
    /\ task_data.importance.val <= 10
    /\ base_task.importance.val >= 1
    /\ base_result.score = 0
    /\ result.score > 0

\* C7: of two tasks identical except estimated_hours, the one with fewer
\* hours scores at least as high, and strictly higher when the two values lie
\* in different effort bands (<=1, <=2, <=4, >4).
C7_FewerHoursNotLower ==
    (BothScored /\ OnlyHoursDiffer
        /\ task_data.estimated_hours.val < base_task.estimated_hours.val) =>
        /\ result.score >= base_result.score
        /\ EffortBand(task_data.estimated_hours.val)
              # EffortBand(base_task.estimated_hours.val)
           => result.score > base_result.score

\* C7 witness: two scored tasks differing only in hours, one in the second
\* band and one in the first.
C7_Witness ==
    /\ BothScored
    /\ OnlyHoursDiffer
    /\ task_data.estimated_hours.val = 1
    /\ base_task.estimated_hours.val = 2

\* C8: calculate_task_score never raises and never returns a negative
\* number, also for empty and malformed records.
C8_NeverRaisesNeverNegative ==
    Scored => (~result.raised /\ result.score >= 0)

\* C9 as stated: a missing due_date gets the flat urgency 15 of an
\* unparseable due_date, so a task without due_date and an otherwise
\* identical task with an unparseable due_date string score the same.
C9_MissingDueDateScoresAsUnparseable ==
    /\ (Scored /\ ~result.raised /\ task_data.due_date.kind = "missing")
          => result.urgency = 15
    /\ (BothScored /\ OnlyDueDateDiffers
          /\ base_task.due_date.kind = "missing"
          /\ task_data.due_date.kind = "badstr")
          => result.score = base_result.score

\* C9 amended: a missing due_date falls back to today's date and gets the
\* due-today urgency 80, so a task without due_date and an otherwise
\* identical task whose due_date is today's date score the same.
C9_MissingDueDateScoresAsToday ==
    /\ (Scored /\ ~result.raised /\ task_data.due_date.kind = "missing")
          => result.urgency = 80
    /\ (BothScored /\ OnlyDueDateDiffers
          /\ base_task.due_date.kind = "missing"
          /\ task_data.due_date.kind \in {"iso", "date"}
          /\ task_data.due_date.days = 0)
          => result.score = base_result.score

\* C9 witness: a task without due_date and the same task due today
\* (as an ISO string) have both been scored.
C9_Witness ==
    /\ BothScored
    /\ OnlyDueDateDiffers
    /\ base_task.due_date.kind = "missing"
    /\ task_data.due_date = [kind |-> "iso", days |-> 0]
    /\ base_result.urgency = 80

\* C10: the +10 bonus is added whenever estimated_hours <= 2 and the clamped
\* importance >= 7, whatever the state of the due date; an unparseable due
\* date only skips the +25 bonus.
C10_QuickBonusIndependentOfDueDate ==
    (Scored /\ ~result.raised) =>
        (result.quick_bonus <=>
            (/\ GetNumber(task_data.estimated_hours, 1).val <= 2
             /\ Max(1, Min(10, GetNumber(task_data.importance, 5).val)) >= 7))

\* ------------------------------------------------------------------------
\* Further properties of the dependency engine (checked under SpecDep)
\* ------------------------------------------------------------------------
\* C16: in get_dependency_order a task is left un-dequeued only because of a
\* cycle: when detection reports has_circular = false every task is
\* dequeued, no 'added at end' warning is emitted and warnings is empty.
C16_NoCycleNoRemainingTasks ==
    (pc = "done" /\ ~circular_info.has_circular) =>
        /\ Range(ordered_task_ids) = DOMAIN TaskMap(tasks)
        /\ \A i \in DOMAIN warnings : warnings[i].kind # "remaining"
        /\ warnings = <<>>

\* chain is a closed walk of graph g that repeats its first node only
GenuineChain(g, chain) ==
    /\ Len(chain) >= 2
    /\ chain[1] = chain[Len(chain)]
    /\ \A i, j \in 1..(Len(chain) - 1) : i # j => chain[i] # chain[j]
    /\ \A i \in DOMAIN chain : chain[i] \in DOMAIN g
    /\ \A i \in 1..(Len(chain) - 1) : chain[i + 1] \in Range(g[chain[i]])

\* C17: every chain of circular_chains has at least two elements, starts and
\* ends with the same id, repeats no other id, consists of ids of input
\* tasks, and each element lists the next one among its dependencies.
\* Stated where detect_circular_dependencies has just returned.
C17_ChainsAreClosedWalks ==
    pc = "build" =>
        LET g == Graph(tasks)
        IN \A i \in DOMAIN circular_info.circular_chains :
              GenuineChain(g, circular_info.circular_chains[i])

\* C17 witness: detection recorded a chain of three or more elements that
\* does not start at the node the traversal started from.
C17_Witness ==
    /\ pc = "build"
    /\ \E i \in DOMAIN circular_info.circular_chains :
          /\ Len(circular_info.circular_chains[i]) >= 3
          /\ circular_info.circular_chains[i][1] # 1

\* the input tasks other than k that list k as a dependency
TasksBlockedBy(ts, k) ==
    {i \in DOMAIN ts : ts[i].id # k /\ k \in Range(ts[i].dependencies)}

\* the ids, in input order, of the tasks that at least 3 other tasks depend on
HighBlockers(ts) ==
    SelectSeq(GraphKeys(ts), LAMBDA k : Cardinality(TasksBlockedBy(ts, k)) >= 3)

\* C18: recommendations holds, in this order and each at most once, a
\* 'warning' record iff a cycle was detected, a 'priority' record iff some
\* task is a dependency of at least 3 other tasks (naming the first such
\* task in input order and the number of tasks it blocks) and an
\* 'opportunity' record iff some task has no dependencies (citing how many);
\* it is empty when none of the conditions holds.
C18_RecommendationsAsDocumented ==
    pc = "analyzed" =>
        recommendations =
            (IF circular_info.has_circular
             THEN <<[type |-> "warning", task_id |-> 0, count |-> 0]>>
             ELSE <<>>)
            \o (IF HighBlockers(tasks) # <<>>
                THEN <<[type |-> "priority",
                        task_id |-> HighBlockers(tasks)[1],
                        count |-> Cardinality(
                            TasksBlockedBy(tasks, HighBlockers(tasks)[1]))]>>
                ELSE <<>>)
            \o (IF \E i \in DOMAIN tasks : tasks[i].dependencies = <<>>
                THEN <<[type |-> "opportunity", task_id |-> 0,
                        count |-> Cardinality({i \in DOMAIN tasks :
                                      tasks[i].dependencies = <<>>})]>>
                ELSE <<>>)

\* ------------------------------------------------------------------------
\* Properties of the ranking strategies
\* ------------------------------------------------------------------------
Sorted == pc = "sorted"

\* out holds every task of inp exactly once (ids are the input positions)
IsPermutationOfInput(inp, out) ==
    /\ Len(out) = Len(inp)
    /\ \A i \in DOMAIN out : out[i].id \in DOMAIN inp /\ out[i] = inp[out[i].id]
    /\ \A i, j \in DOMAIN out : i # j => out[i].id # out[j].id

\* C11: for each of the four strategies apply_sorting_strategy returns a
\* permutation of the input tasks in non-increasing order of the strategy's
\* sort key, and two tasks with equal keys keep their input order.
C11_StableDescendingPermutation ==
    (Sorted /\ strategy \in SORTING_STRATEGIES) =>
        /\ ~sorted_tasks.raised
        /\ IsPermutationOfInput(rank_tasks, sorted_tasks.tasks)
        /\ LET out == sorted_tasks.tasks
               key == [i \in DOMAIN out |-> StrategyKey(strategy, out[i])]
           IN \A i, j \in DOMAIN out :
                  i < j => /\ key[i] >= key[j]
                           /\ key[i] = key[j] => out[i].id < out[j].id

\* two tasks that differ in a scored field and have equal keys were ranked
C11_Witness ==
    /\ Sorted
    /\ strategy \in SORTING_STRATEGIES
    /\ Len(rank_tasks) = 2
    /\ \/ rank_tasks[1].due_date # rank_tasks[2].due_date
       \/ rank_tasks[1].importance # rank_tasks[2].importance
       \/ rank_tasks[1].estimated_hours # rank_tasks[2].estimated_hours
    /\ StrategyKey(strategy, rank_tasks[1]) = StrategyKey(strategy, rank_tasks[2])

\* C12: for a strategy name that is not registered apply_sorting_strategy
\* does not fail and returns the ordering that 'smart_balance' returns.
C12_UnknownStrategyIsSmartBalance ==
    (Sorted /\ strategy \notin SORTING_STRATEGIES) =>
        /\ ~sorted_tasks.raised
        /\ sorted_tasks = SortByStrategy(rank_tasks, "smart_balance")

\* an unregistered name ranked two tasks on which 'smart_balance' and
\* 'fastest_wins' disagree
C12_Witness ==
    /\ Sorted
    /\ strategy \notin SORTING_STRATEGIES
    /\ Len(rank_tasks) = 2
    /\ SortByStrategy(rank_tasks, "fastest_wins")
           # SortByStrategy(rank_tasks, "smart_balance")

\* C13: under 'deadline_driven' every overdue task is ranked before every
\* task that is not overdue.
C13_OverdueRankedFirst ==
    (Sorted /\ strategy = "deadline_driven") =>
        \A i, j \in DOMAIN sorted_tasks.tasks :
            (Overdue(sorted_tasks.tasks[i]) /\ ~Overdue(sorted_tasks.tasks[j]))
                => i < j

\* an overdue task that came second in the input, with more hours than the
\* task before it that is not overdue, was ranked
C13_Witness ==
    /\ Sorted
    /\ strategy = "deadline_driven"
    /\ Len(rank_tasks) = 2
    /\ ~Overdue(rank_tasks[1])
    /\ Overdue(rank_tasks[2])
    /\ rank_tasks[2].estimated_hours.val > rank_tasks[1].estimated_hours.val

\* C14: under 'high_impact' a task of strictly higher importance is ranked
\* before a task of lower importance, whatever the other fields.
C14_HigherImportanceRankedFirst ==
    (Sorted /\ strategy = "high_impact") =>
        \A i, j \in DOMAIN sorted_tasks.tasks :
            GetNumber(sorted_tasks.tasks[i].importance, 5).val
                > GetNumber(sorted_tasks.tasks[j].importance, 5).val
                => i < j

\* ------------------------------------------------------------------------
\* Properties of the priority levels
\* ------------------------------------------------------------------------
TierRank(level) ==
    CASE level = "CRITICAL" -> 4
      [] level = "HIGH" -> 3
      [] level = "MEDIUM" -> 2
      [] level = "LOW" -> 1
      [] OTHER -> 0

\* C15: score >= 100 gives CRITICAL, 70 <= score < 100 HIGH, 40 <= score < 70
\* MEDIUM, 20 <= score < 40 LOW, score < 20 MINIMAL, and the tier never
\* decreases when the score increases.
C15_ThresholdsAndMonotone ==
    /\ pc \in {"classified", "compared"} =>
          /\ given_score >= 100 <=> priority_level = "CRITICAL"
          /\ (70 <= given_score /\ given_score < 100) <=> priority_level = "HIGH"
          /\ (40 <= given_score /\ given_score < 70) <=> priority_level = "MEDIUM"
          /\ (20 <= given_score /\ given_score < 40) <=> priority_level = "LOW"
          /\ given_score < 20 <=> priority_level = "MINIMAL"
    /\ (pc = "compared" /\ prev_score <= given_score) =>
          TierRank(prev_level) <= TierRank(priority_level)

\* a score on a threshold was classified after a lower score of another tier
C15_Witness ==
    /\ pc = "compared"
    /\ given_score \in {20, 40, 70, 100}
    /\ prev_score < given_score
    /\ prev_level # priority_level

====
